---- MODULE Spec2Model ----
(***************************************************************************)
(* Model of the Instagram gateway: the Graph API server's business-account *)
(* route and the InstagramGraphAPI class it drives.                        *)
(*                                                                         *)
(* A JavaScript string that the code inspects character by character (the  *)
(* path username, the limit query parameter) is a sequence of one-letter   *)
(* strings; a string the code only passes on (a token, an id) is a TLA+    *)
(* string.  A JavaScript object is a record, and a property that is        *)
(* undefined is a field the record does not have.  An error message is a   *)
(* sequence of text parts, so that a template literal is a concatenation.  *)
(***************************************************************************)
EXTENDS Integers, Sequences, FiniteSets, TLC

\* ------------------------------------------------------------------------
\* Bounds of the model
\* ------------------------------------------------------------------------
MaxNameLen == 2
MaxPages == 2
MaxPosts == 2

\* ------------------------------------------------------------------------
\* Strings and characters
\* ------------------------------------------------------------------------
UpperLetters == <<"A","B","C","D","E","F","G","H","I","J","K","L","M",
                  "N","O","P","Q","R","S","T","U","V","W","X","Y","Z">>
LowerLetters == <<"a","b","c","d","e","f","g","h","i","j","k","l","m",
                  "n","o","p","q","r","s","t","u","v","w","x","y","z">>
DigitChars == <<"0","1","2","3","4","5","6","7","8","9">>
HexChars == <<"0","1","2","3","4","5","6","7","8","9","a","b","c","d","e","f">>
WhiteSpace == {" "}

Range(s) == {s[i] : i \in DOMAIN s}

SeqsUpTo(S, n) == UNION {[1..k -> S] : k \in 0..n}

EmptyObject == <<>>

HasField(obj, f) == f \in DOMAIN obj

\* a property as a template literal or encodeURIComponent reads it: the
\* string of an undefined value is "undefined"
Interpolated(obj, f, undefinedText) == IF HasField(obj, f) THEN obj[f] ELSE undefinedText

\* String.prototype.toLowerCase, one character
LowerChar(c) ==
    IF \E i \in DOMAIN UpperLetters : UpperLetters[i] = c
    THEN LowerLetters[CHOOSE i \in DOMAIN UpperLetters : UpperLetters[i] = c]
    ELSE c

\* String.prototype.toLowerCase
ToLowerCase(s) == [i \in DOMAIN s |-> LowerChar(s[i])]

\* /^[a-zA-Z0-9._]{1,30}$/.test(username)
UsernamePatternMatch(u) ==
    /\ Len(u) >= 1
    /\ Len(u) <= 30
    /\ \A i \in DOMAIN u :
          u[i] \in Range(UpperLetters) \cup Range(LowerLetters) \cup Range(DigitChars)
                     \cup {".", "_"}

\* ------------------------------------------------------------------------
\* parseInt(string) with no radix argument
\* ------------------------------------------------------------------------
RECURSIVE TrimStart(_)
TrimStart(s) ==
    IF s # <<>> /\ Head(s) \in WhiteSpace THEN TrimStart(Tail(s)) ELSE s

\* the value of c as a digit of the radix, or -1 when it is none
DigitValue(c, radix) ==
    LET l == LowerChar(c)
    IN IF \E i \in 1..radix : HexChars[i] = l
       THEN (CHOOSE i \in 1..radix : HexChars[i] = l) - 1
       ELSE -1

RECURSIVE ParseDigits(_, _, _, _)
\* reads the longest prefix of s made of digits of the radix
ParseDigits(s, radix, acc, seen) ==
    IF s # <<>> /\ DigitValue(Head(s), radix) >= 0
    THEN ParseDigits(Tail(s), radix, acc * radix + DigitValue(Head(s), radix), TRUE)
    ELSE [nan |-> ~seen, val |-> acc]

ParseInt(str) ==
    LET t == TrimStart(str)
        neg == t # <<>> /\ Head(t) = "-"
        u == IF t # <<>> /\ Head(t) \in {"-", "+"} THEN Tail(t) ELSE t
        hex == Len(u) >= 2 /\ u[1] = "0" /\ u[2] \in {"x", "X"}
        body == IF hex THEN Tail(Tail(u)) ELSE u
        p == ParseDigits(body, IF hex THEN 16 ELSE 10, 0, FALSE)
    IN IF p.nan THEN p
       ELSE [nan |-> FALSE, val |-> IF neg THEN 0 - p.val ELSE p.val]

\* ------------------------------------------------------------------------
\* Requests a client can send to GET /api/instagram/business/:username
\* ------------------------------------------------------------------------
Reqs == {"r1", "r2"}

NameAlphabet == {"a", "A", "-"}

\* a name longer than the 30 characters the username pattern admits
LongName == [i \in 1..31 |-> "a"]

PathUsernames == (SeqsUpTo(NameAlphabet, MaxNameLen) \ {<<>>}) \cup {LongName}

AccessTokens == {"", "tok1"}

LimitStrings ==
    { <<"0">>, <<"1">>, <<"-","5">>, <<"1","0","0">>, <<"1","0","1">>,
      <<"a","b","c">>, <<"7","x">>, <<"0","x","1","0">> }

Queries ==
    { t @@ l : t \in {EmptyObject} \cup {[access_token |-> a] : a \in AccessTokens},
               l \in {EmptyObject} \cup {[limit |-> s] : s \in LimitStrings} }

BusinessRequests ==
    { [route |-> "business", params |-> [username |-> u], query |-> q] :
        u \in PathUsernames, q \in Queries }

NoRequest == [route |-> "none"]

\* ------------------------------------------------------------------------
\* What the Graph API can answer to one axios.get
\* ------------------------------------------------------------------------
Pending == [status |-> "pending"]

UpstreamFailure == [status |-> "error", message |-> <<"Request failed with status code 400">>]

Ok(body) == [status |-> "ok", data |-> body]

Pages == { [id |-> "p1", access_token |-> "pt1"], [id |-> "p2", access_token |-> "pt2"] }

IgAccountIds == {"ig1", "ig2"}

ProfileUsernames == { <<"a">>, <<"A","a">> }

Posts == { [id |-> "m1", media_type |-> "IMAGE"], [id |-> "m2", media_type |-> "VIDEO"] }

\* GET {facebook}/me/accounts
PagesReplies(args) ==
    {UpstreamFailure} \cup {Ok(EmptyObject)}
        \cup {Ok([data |-> l]) : l \in SeqsUpTo(Pages, MaxPages)}

\* GET {facebook}/{pageId}?fields=instagram_business_account
IgAccountReplies(args) ==
    {UpstreamFailure} \cup {Ok([id |-> args.id])}
        \cup {Ok([id |-> args.id, instagram_business_account |-> [id |-> a]]) : a \in IgAccountIds}

\* GET {instagram}/{igAccountId}?fields=id,username,...
ProfileReplies(args) ==
    {UpstreamFailure} \cup {Ok([id |-> args.id])}
        \cup {Ok([id |-> args.id, username |-> u]) : u \in ProfileUsernames}

\* the page of media records a call with these arguments can get
MediaPages(args) ==
    {m \in SeqsUpTo(Posts, MaxPosts) : args.limit >= 1 => Len(m) <= args.limit}

\* GET {instagram}/{accountId}/media?fields=...&limit=: a positive limit is
\* honoured, and a page that is not the last one names the next
MediaReplies(args) ==
    {UpstreamFailure} \cup {Ok(EmptyObject)}
        \cup {Ok([data |-> l]) : l \in MediaPages(args)}
        \cup {Ok([data |-> l, paging |-> [next |-> "after"]]) : l \in MediaPages(args) \ {<<>>}}

\* ------------------------------------------------------------------------
\* The code between two suspension points, as the effect it ends with:
\* either the next upstream call or the response
\* ------------------------------------------------------------------------
Call(op, args, newLocals) == [kind |-> "call", op |-> op, args |-> args, locals |-> newLocals]

Respond(status, body) == [kind |-> "respond", status |-> status, body |-> body]

DefaultLimit == 25

\* const limit = parseInt(req.query.limit) || 25
LimitOf(query) ==
    IF ~HasField(query, "limit") THEN DefaultLimit
    ELSE LET p == ParseInt(query.limit)
         IN IF p.nan \/ p.val = 0 THEN DefaultLimit ELSE p.val

\* the token check as access_token === undefined
TokenMissingUndefinedOnly(query) == ~HasField(query, "access_token")

\* !access_token
TokenMissing(query) == ~HasField(query, "access_token") \/ query.access_token = ""

\* !pagesResponse.data.data || pagesResponse.data.data.length === 0
NoPages(body) == ~HasField(body, "data") \/ Len(body.data) = 0

\* !igAccountResponse.data.instagram_business_account
NoBusinessAccount(body) == ~HasField(body, "instagram_business_account")

\* the username check left out
UsernameMatchesAlways(profileUsername, username) == TRUE

\* the username check without toLowerCase
UsernameMatchesExact(profileUsername, username) == profileUsername = username

\* accountInfo.profile.username.toLowerCase() === username.toLowerCase()
UsernameMatches(profileUsername, username) ==
    ToLowerCase(profileUsername) = ToLowerCase(username)

\* the catch block of getBusinessAccountInfo rethrowing the error it caught
InfoCatchRethrow(message) == message

\* catch block of getBusinessAccountInfo
InfoCatch(message) == <<"Failed to get business account info: ">> \o message

\* catch block of getBusinessAccountPosts
PostsCatch(message) == <<"Failed to get business posts: ">> \o message

\* the catch block of the business route logging the error and sending nothing
HandlerCatchSilent(message) == [kind |-> "silent"]

\* catch block of the business route
HandlerCatch(message) == Respond(500, [success |-> FALSE, error |-> message])

\* res.json of the business route: JSON drops a property that is undefined
SuccessBody(accountInfo, posts) ==
    [success |-> TRUE,
     username |-> accountInfo.profile.username,
     account_type |-> "business",
     profile |-> accountInfo.profile]
        @@ (IF HasField(posts, "data") THEN [posts |-> posts.data] ELSE EmptyObject)

\* the 400 of the business route sent without return: the route goes on
BusinessHandlerNoReturn(req) ==
    IF TokenMissing(req.query)
    THEN [kind |-> "respondAndCall", status |-> 400,
          body |-> [success |-> FALSE,
                    error |-> <<"Access token is required for business accounts">>],
          op |-> "listPages",
          args |-> [token |-> Interpolated(req.query, "access_token", "undefined")],
          locals |-> [limit |-> LimitOf(req.query)]]
    ELSE Call("listPages", [token |-> req.query.access_token], [limit |-> LimitOf(req.query)])

\* the route up to the first await
BusinessHandler(req) ==
    LET limit == LimitOf(req.query)
    IN IF TokenMissing(req.query)
       THEN Respond(400, [success |-> FALSE,
                          error |-> <<"Access token is required for business accounts">>])
       ELSE Call("listPages", [token |-> req.query.access_token], [limit |-> limit])

\* the page list read with optional chaining and no emptiness check
AfterListPagesUnchecked(req, loc, reply) ==
    IF reply.status = "error" THEN HandlerCatch(InfoCatch(reply.message))
    ELSE LET first == IF NoPages(reply.data)
                      THEN [id |-> "undefined", access_token |-> "undefined"]
                      ELSE reply.data.data[1]
         IN Call("getIgAccount", [id |-> first.id, token |-> first.access_token],
                 loc @@ [pageId |-> first.id, pageToken |-> first.access_token])

\* a failed /me/accounts call tried a second time
AfterListPagesRetry(req, loc, reply) ==
    IF reply.status = "error" /\ ~HasField(loc, "retried")
    THEN Call("listPages", [token |-> req.query.access_token], loc @@ [retried |-> TRUE])
    ELSE IF reply.status = "error" THEN HandlerCatch(InfoCatch(reply.message))
    ELSE IF NoPages(reply.data) THEN HandlerCatch(InfoCatch(<<"No Facebook pages found">>))
    ELSE Call("getIgAccount",
              [id |-> reply.data.data[1].id, token |-> reply.data.data[1].access_token],
              loc @@ [pageId |-> reply.data.data[1].id,
                      pageToken |-> reply.data.data[1].access_token])

\* the last page of the list taken instead of the first
AfterListPagesLastPage(req, loc, reply) ==
    IF reply.status = "error" THEN HandlerCatch(InfoCatch(reply.message))
    ELSE IF NoPages(reply.data) THEN HandlerCatch(InfoCatch(<<"No Facebook pages found">>))
    ELSE LET page == reply.data.data[Len(reply.data.data)]
         IN Call("getIgAccount", [id |-> page.id, token |-> page.access_token],
                 loc @@ [pageId |-> page.id, pageToken |-> page.access_token])

\* getBusinessAccountInfo from the answer of /me/accounts to the second await
AfterListPages(req, loc, reply) ==
    IF reply.status = "error" THEN HandlerCatch(InfoCatch(reply.message))
    ELSE IF NoPages(reply.data) THEN HandlerCatch(InfoCatch(<<"No Facebook pages found">>))
    ELSE LET pageId == reply.data.data[1].id
             pageToken == reply.data.data[1].access_token
         IN Call("getIgAccount", [id |-> pageId, token |-> pageToken],
                 loc @@ [pageId |-> pageId, pageToken |-> pageToken])

\* the linked account read with optional chaining and no presence check
AfterGetIgAccountUnchecked(req, loc, reply) ==
    IF reply.status = "error" THEN HandlerCatch(InfoCatch(reply.message))
    ELSE LET igAccountId == IF NoBusinessAccount(reply.data) THEN "undefined"
                            ELSE reply.data.instagram_business_account.id
         IN Call("getProfile", [id |-> igAccountId, token |-> loc.pageToken],
                 loc @@ [igAccountId |-> igAccountId])

\* getBusinessAccountInfo from the answer of /{pageId} to the third await
AfterGetIgAccount(req, loc, reply) ==
    IF reply.status = "error" THEN HandlerCatch(InfoCatch(reply.message))
    ELSE IF NoBusinessAccount(reply.data)
    THEN HandlerCatch(InfoCatch(<<"No Instagram business account connected">>))
    ELSE LET igAccountId == reply.data.instagram_business_account.id
         IN Call("getProfile", [id |-> igAccountId, token |-> loc.pageToken],
                 loc @@ [igAccountId |-> igAccountId])

\* the return of getBusinessAccountInfo, the username check of the route and
\* getBusinessAccountPosts up to its await
AfterGetProfile(req, loc, reply) ==
    IF reply.status = "error" THEN HandlerCatch(InfoCatch(reply.message))
    ELSE LET accountInfo == [accountId |-> loc.igAccountId,
                             accessToken |-> loc.pageToken,
                             profile |-> reply.data]
         IN IF ~HasField(accountInfo.profile, "username")
            THEN HandlerCatch(<<"Cannot read properties of undefined (reading 'toLowerCase')">>)
            ELSE IF ~UsernameMatches(accountInfo.profile.username, req.params.username)
            THEN Respond(404, [success |-> FALSE,
                               error |-> <<"Username does not match the authenticated business account">>])
            ELSE Call("listMedia",
                      [id |-> accountInfo.accountId, token |-> accountInfo.accessToken,
                       limit |-> loc.limit],
                      loc @@ [accountInfo |-> accountInfo])

\* a failed media call answered with the profile and an empty post list
AfterListMediaPartial(req, loc, reply) ==
    IF reply.status = "error"
    THEN Respond(200, SuccessBody(loc.accountInfo, [data |-> <<>>]))
    ELSE Respond(200, SuccessBody(loc.accountInfo, reply.data))

\* the next page of media fetched when the answer names one
AfterListMediaFollowPaging(req, loc, reply) ==
    IF reply.status = "error" THEN HandlerCatch(PostsCatch(reply.message))
    ELSE IF HasField(reply.data, "paging") /\ ~HasField(loc, "paged")
    THEN Call("listMedia",
              [id |-> loc.accountInfo.accountId, token |-> loc.accountInfo.accessToken,
               limit |-> loc.limit],
              loc @@ [paged |-> TRUE])
    ELSE Respond(200, SuccessBody(loc.accountInfo, reply.data))

\* the return of getBusinessAccountPosts and the end of the route
AfterListMedia(req, loc, reply) ==
    IF reply.status = "error" THEN HandlerCatch(PostsCatch(reply.message))
    ELSE Respond(200, SuccessBody(loc.accountInfo, reply.data))

\* ------------------------------------------------------------------------
\* The other routes of the Graph API server
\* ------------------------------------------------------------------------

\* the characters encodeURIComponent leaves as they are, besides letters and digits
UriUnreservedMarks == {"-", "_", ".", "!", "~", "*", "'", "(", ")"}

\* the UTF-8 percent escape of the other ASCII characters the model uses
UriEscape(c) ==
    CASE c = ":" -> <<"%", "3", "A">>
      [] c = "/" -> <<"%", "2", "F">>
      [] c = "?" -> <<"%", "3", "F">>
      [] c = "&" -> <<"%", "2", "6">>
      [] c = "=" -> <<"%", "3", "D">>
      [] c = " " -> <<"%", "2", "0">>

RECURSIVE EncodeURIComponent(_)
\* encodeURIComponent(string)
EncodeURIComponent(str) ==
    IF str = <<>> THEN <<>>
    ELSE (IF Head(str) \in Range(UpperLetters) \cup Range(LowerLetters)
                             \cup Range(DigitChars) \cup UriUnreservedMarks
          THEN <<Head(str)>>
          ELSE UriEscape(Head(str))) \o EncodeURIComponent(Tail(str))

RedirectUris == { <<>>, <<"h", ":", "/", "x", "?", "a", "=", "1">> }

\* an object with the property n, of one of these values, or without it
Optional(n, values) == {EmptyObject} \cup {[x \in {n} |-> v] : v \in values}

TokenRequests ==
    { [route |-> "token", body |-> c @@ a @@ k @@ u] :
        c \in Optional("code", {"", "c1"}),
        a \in Optional("app_id", {"", "app1"}),
        k \in Optional("app_secret", {"", "secret1"}),
        u \in Optional("redirect_uri", RedirectUris) }

AuthUrlRequests ==
    { [route |-> "authurl", query |-> a @@ u] :
        a \in Optional("app_id", {"", "app1"}),
        u \in Optional("redirect_uri", RedirectUris) }

PublicRequests ==
    { [route |-> "public", params |-> [username |-> u], query |-> q] :
        u \in {<<"a">>, <<"-">>},
        q \in {EmptyObject} \cup {[limit |-> s] : s \in LimitStrings} }

\* /api/setup, /health and /
StaticRequests == { [route |-> p] : p \in {"setup", "health", "root"} }

\* a path no route matches, and a POST whose body express.json() cannot parse
OtherRequests == { [route |-> "unmatched"], [route |-> "badjson"] }

\* GET https://graph.facebook.com/v18.0/oauth/access_token
TokenReplies(args) ==
    { UpstreamFailure,
      Ok([access_token |-> "at1", token_type |-> "bearer", expires_in |-> 5184000]),
      Ok([access_token |-> "at1"]) }

\* the check of the token route without redirect_uri
TokenParamsMissingNoRedirect(body) ==
    \/ ~HasField(body, "code") \/ body.code = ""
    \/ ~HasField(body, "app_id") \/ body.app_id = ""
    \/ ~HasField(body, "app_secret") \/ body.app_secret = ""

\* !code || !app_id || !app_secret || !redirect_uri
TokenParamsMissing(body) ==
    \/ ~HasField(body, "code") \/ body.code = ""
    \/ ~HasField(body, "app_id") \/ body.app_id = ""
    \/ ~HasField(body, "app_secret") \/ body.app_secret = ""
    \/ ~HasField(body, "redirect_uri") \/ body.redirect_uri = <<>>

\* the catch block of the token route answering with error.message
TokenCatchEcho(message) == Respond(500, [success |-> FALSE, error |-> message])

\* catch block of the token route
TokenCatch(message) ==
    Respond(500, [success |-> FALSE, error |-> <<"Failed to exchange code for token">>])

\* the token route up to its await
TokenHandler(req) ==
    IF TokenParamsMissing(req.body)
    THEN Respond(400, [success |-> FALSE,
                       error |-> <<"code, app_id, app_secret, and redirect_uri are required">>])
    ELSE Call("exchangeToken",
              [client_id |-> Interpolated(req.body, "app_id", "undefined"),
               redirect_uri |-> EncodeURIComponent(
                                  Interpolated(req.body, "redirect_uri",
                                               <<"u", "n", "d", "e", "f", "i", "n", "e", "d">>)),
               client_secret |-> Interpolated(req.body, "app_secret", "undefined"),
               code |-> Interpolated(req.body, "code", "undefined")],
              EmptyObject)

\* res.json of the token route: JSON drops a property that is undefined
TokenSuccessBody(data) ==
    [success |-> TRUE]
        @@ [f \in DOMAIN data \cap {"access_token", "token_type", "expires_in"} |-> data[f]]

\* the token route after its await
AfterExchange(req, loc, reply) ==
    IF reply.status = "error" THEN TokenCatch(reply.message)
    ELSE Respond(200, TokenSuccessBody(reply.data))

\* !app_id || !redirect_uri
AuthParamsMissing(query) ==
    \/ ~HasField(query, "app_id") \/ query.app_id = ""
    \/ ~HasField(query, "redirect_uri") \/ query.redirect_uri = <<>>

\* the OAuth setup route
AuthUrlHandler(req) ==
    IF AuthParamsMissing(req.query)
    THEN Respond(400, [success |-> FALSE, error |-> <<"app_id and redirect_uri are required">>])
    ELSE Respond(200,
           [success |-> TRUE,
            auth_url |-> <<"https://www.facebook.com/v18.0/dialog/oauth?client_id=",
                           req.query.app_id, "&redirect_uri=">>
                         \o EncodeURIComponent(req.query.redirect_uri)
                         \o <<"&scope=instagram_basic,pages_show_list,pages_read_engagement",
                              "&response_type=code">>,
            instructions |-> <<"1. Visit the auth_url to authorize your app",
                               "2. Copy the authorization code from the redirect",
                               "3. Exchange the code for an access token using /api/auth/token">>])

\* the public account route
PublicHandler(req) ==
    Respond(501,
      [success |-> FALSE,
       error |-> <<"Public profile scraping is no longer reliable due to Instagram's restrictions">>,
       recommendation |-> "Use Instagram Graph API with business accounts",
       alternatives |-> <<"Convert to Instagram Business account", "Use Instagram Graph API",
                          "Use third-party services like RapidAPI">>])

\* /api/setup, /health and /: res.json of a document without a success property
StaticHandler(req) ==
    Respond(200,
      CASE req.route = "setup" -> [setup_instructions |-> "steps", required_permissions |-> "permissions",
                                   limitations |-> "limitations"]
        [] req.route = "health" -> [status |-> "OK", timestamp |-> "now"]
        [] req.route = "root" -> [message |-> "Real Instagram Posts API", documentation |-> "/api-docs",
                                  setup |-> "/api/setup", health |-> "/health"])

\* the 404 handler answering a bare message
NotFoundHandlerPlain(req) == Respond(404, [message |-> <<"Endpoint not found">>])

\* the 404 handler
NotFoundHandler(req) == Respond(404, [success |-> FALSE, error |-> <<"Endpoint not found">>])

\* the error handling middleware
ErrorMiddleware(req) == Respond(500, [success |-> FALSE, error |-> <<"Internal server error">>])

GraphRequests ==
    BusinessRequests \cup TokenRequests \cup AuthUrlRequests \cup PublicRequests
        \cup StaticRequests \cup OtherRequests

\* ------------------------------------------------------------------------
\* The mock-data server (server.js): GET /api/instagram/:username
\* ------------------------------------------------------------------------
JohnDoe == <<"j", "o", "h", "n", "d", "o", "e">>

\* the properties every object literal inherits from Object.prototype
ObjectPrototypeKeys ==
    { <<"c", "o", "n", "s", "t", "r", "u", "c", "t", "o", "r">>,
      <<"_", "_", "p", "r", "o", "t", "o", "_", "_">>,
      <<"t", "o", "S", "t", "r", "i", "n", "g">>,
      <<"v", "a", "l", "u", "e", "O", "f">>,
      <<"h", "a", "s", "O", "w", "n", "P", "r", "o", "p", "e", "r", "t", "y">> }

\* const mockUserData = { johndoe: { profile, posts } }
MockUserData ==
    [k \in {JohnDoe} |->
        [profile |-> [username |-> JohnDoe, full_name |-> "John Doe", followers_count |-> 1250,
                      following_count |-> 300, posts_count |-> 45],
         posts |-> << [id |-> "1", likes_count |-> 124, comments_count |-> 8],
                      [id |-> "2", likes_count |-> 89, comments_count |-> 12],
                      [id |-> "3", likes_count |-> 156, comments_count |-> 23] >>]]

MockUsernames ==
    { JohnDoe, <<"J", "o", "h", "n", "D", "o", "e">>, <<"c", "o", "n", "s", "t", "r", "u", "c", "t", "o", "r">>,
      <<"t", "o", "S", "t", "r", "i", "n", "g">>, <<"a">>, <<"-">>, LongName }

MockRequests ==
    { [route |-> "mock", params |-> [username |-> u], query |-> q] :
        u \in MockUsernames,
        q \in {EmptyObject} \cup {[limit |-> s] : s \in LimitStrings} }

MockDefaultLimit == 12

\* const limit = parseInt(req.query.limit) || 12
MockLimitOf(query) ==
    IF ~HasField(query, "limit") THEN MockDefaultLimit
    ELSE LET p == ParseInt(query.limit)
         IN IF p.nan \/ p.val = 0 THEN MockDefaultLimit ELSE p.val

\* limit < 1 || limit > 50
MockLimitInvalid(limit) == limit < 1 \/ limit > 50

\* object[key]: an own property, else one inherited from Object.prototype,
\* else undefined
Lookup(object, key) ==
    IF key \in DOMAIN object THEN [found |-> "own", value |-> object[key]]
    ELSE IF key \in ObjectPrototypeKeys THEN [found |-> "inherited"]
    ELSE [found |-> "undefined"]

\* Array.prototype.slice(0, end)
Slice(array, end) ==
    LET n == Len(array)
        to == IF end < 0 THEN (IF n + end < 0 THEN 0 ELSE n + end)
              ELSE (IF end > n THEN n ELSE end)
    IN SubSeq(array, 1, to)

\* the route of the mock server up to the await inside fetchInstagramData
MockHandler(req) ==
    LET limit == MockLimitOf(req.query)
    IN IF req.params.username = <<>> \/ ~UsernamePatternMatch(req.params.username)
       THEN Respond(400, [success |-> FALSE, error |-> <<"Invalid username format">>])
       ELSE IF MockLimitInvalid(limit)
       THEN Respond(400, [success |-> FALSE, error |-> <<"Limit must be between 1 and 50">>])
       ELSE Call("fetchInstagramData", [username |-> req.params.username, limit |-> limit],
                 [limit |-> limit])

\* catch block of the route of the mock server
MockCatch(message) ==
    IF message = <<"User not found">>
    THEN Respond(404, [success |-> FALSE, error |-> <<"User not found">>])
    ELSE Respond(500, [success |-> FALSE, error |-> <<"Internal server error">>])

\* fetchInstagramData after its delay, and the end of the route
AfterDelay(req, loc, data) ==
    LET userData == Lookup(data, ToLowerCase(req.params.username))
    IN IF userData.found = "undefined" THEN MockCatch(<<"User not found">>)
       ELSE IF userData.found = "inherited"
       THEN MockCatch(<<"Cannot read properties of undefined (reading 'slice')">>)
       ELSE Respond(200, [success |-> TRUE,
                          username |-> req.params.username,
                          profile |-> userData.value.profile,
                          posts |-> Slice(userData.value.posts, loc.limit)])

Requests == GraphRequests \cup MockRequests

\* ------------------------------------------------------------------------
\* State
\* ------------------------------------------------------------------------
VARIABLES
    request,    \* request[r]: the request r as express hands it to the route
    pc,         \* pc[r]: where the handler of r stands
    locals,     \* locals[r]: the constants the handler of r has bound so far
    calls,      \* the upstream calls issued, in order, each with its answer
    responses,  \* responses[r]: what res has sent for r, in order
    mockUserData \* the dataset of the mock server

vars == <<request, pc, locals, calls, responses, mockUserData>>

AwaitOf(op) ==
    CASE op = "listPages" -> "awaitPages"
      [] op = "getIgAccount" -> "awaitIgAccount"
      [] op = "getProfile" -> "awaitProfile"
      [] op = "listMedia" -> "awaitMedia"
      [] op = "exchangeToken" -> "awaitToken"
      [] op = "fetchInstagramData" -> "awaitDelay"

\* the index in calls of the call r is suspended on
PendingIndex(r) ==
    CHOOSE i \in DOMAIN calls : calls[i].req = r /\ calls[i].reply = Pending

\* the handler of r sends what the effect sends and then either is suspended
\* on the call of the effect or has returned
Apply(r, eff, callsNow) ==
    LET sends == eff.kind \in {"respond", "respondAndCall"}
        issues == eff.kind \in {"call", "respondAndCall"}
    IN /\ responses' = IF sends
                       THEN [responses EXCEPT
                               ![r] = Append(@, [status |-> eff.status, body |-> eff.body])]
                       ELSE responses
       /\ calls' = IF issues
                   THEN Append(callsNow, [req |-> r, op |-> eff.op, args |-> eff.args,
                                          reply |-> Pending])
                   ELSE callsNow
       /\ pc' = [pc EXCEPT ![r] = IF issues THEN AwaitOf(eff.op) ELSE "done"]
       /\ locals' = IF issues THEN [locals EXCEPT ![r] = eff.locals] ELSE locals

\* the constants kept where every invocation writes them: the handler of r
\* reads what the request that called upstream last has bound
LocalsShared(r) ==
    LET last == IF calls = <<>> THEN r ELSE calls[Len(calls)].req
    IN [f \in DOMAIN locals[r] |->
          IF f \in DOMAIN locals[last] THEN locals[last][f] ELSE locals[r][f]]

\* the constants the invocation of the handler for r has bound
LocalsOf(r) == locals[r]

Answered(r, reply) == [calls EXCEPT ![PendingIndex(r)].reply = reply]

InitWith(rs) ==
    /\ request \in [Reqs -> Requests \cup {NoRequest}]
    /\ \A r \in Reqs : request[r] = NoRequest <=> r \notin rs
    /\ pc = [r \in Reqs |-> IF r \in rs THEN "start" ELSE "unused"]
    /\ locals = [r \in Reqs |-> EmptyObject]
    /\ calls = <<>>
    /\ responses = [r \in Reqs |-> <<>>]
    /\ mockUserData = MockUserData

\* one request, any parameters
Init == InitWith({"r1"})

\* express dispatches GET /api/instagram/business/:username
BusinessStart(r) ==
    /\ pc[r] = "start"
    /\ request[r].route = "business"
    /\ UNCHANGED <<request, mockUserData>>
    /\ Apply(r, BusinessHandler(request[r]), calls)

\* axios.get of /me/accounts settles
PagesReturn(r) ==
    /\ pc[r] = "awaitPages"
    /\ UNCHANGED <<request, mockUserData>>
    /\ \E reply \in PagesReplies(calls[PendingIndex(r)].args) :
          Apply(r, AfterListPages(request[r], LocalsOf(r), reply), Answered(r, reply))

\* axios.get of /{pageId}?fields=instagram_business_account settles
IgAccountReturn(r) ==
    /\ pc[r] = "awaitIgAccount"
    /\ UNCHANGED <<request, mockUserData>>
    /\ \E reply \in IgAccountReplies(calls[PendingIndex(r)].args) :
          Apply(r, AfterGetIgAccount(request[r], LocalsOf(r), reply), Answered(r, reply))

\* axios.get of /{igAccountId}?fields=id,username,... settles
ProfileReturn(r) ==
    /\ pc[r] = "awaitProfile"
    /\ UNCHANGED <<request, mockUserData>>
    /\ \E reply \in ProfileReplies(calls[PendingIndex(r)].args) :
          Apply(r, AfterGetProfile(request[r], LocalsOf(r), reply), Answered(r, reply))

\* axios.get of /{accountId}/media settles
MediaReturn(r) ==
    /\ pc[r] = "awaitMedia"
    /\ UNCHANGED <<request, mockUserData>>
    /\ \E reply \in MediaReplies(calls[PendingIndex(r)].args) :
          Apply(r, AfterListMedia(request[r], LocalsOf(r), reply), Answered(r, reply))

\* express dispatches POST /api/auth/token
TokenStart(r) ==
    /\ pc[r] = "start"
    /\ request[r].route = "token"
    /\ UNCHANGED <<request, mockUserData>>
    /\ Apply(r, TokenHandler(request[r]), calls)

\* axios.get of /oauth/access_token settles
TokenReturn(r) ==
    /\ pc[r] = "awaitToken"
    /\ UNCHANGED <<request, mockUserData>>
    /\ \E reply \in TokenReplies(calls[PendingIndex(r)].args) :
          Apply(r, AfterExchange(request[r], LocalsOf(r), reply), Answered(r, reply))

\* express dispatches GET /api/auth/instagram
AuthUrl(r) ==
    /\ pc[r] = "start"
    /\ request[r].route = "authurl"
    /\ UNCHANGED <<request, mockUserData>>
    /\ Apply(r, AuthUrlHandler(request[r]), calls)

\* express dispatches GET /api/instagram/public/:username
Public(r) ==
    /\ pc[r] = "start"
    /\ request[r].route = "public"
    /\ UNCHANGED <<request, mockUserData>>
    /\ Apply(r, PublicHandler(request[r]), calls)

\* express dispatches GET /api/setup, /health or /
Static(r) ==
    /\ pc[r] = "start"
    /\ request[r].route \in {"setup", "health", "root"}
    /\ UNCHANGED <<request, mockUserData>>
    /\ Apply(r, StaticHandler(request[r]), calls)

\* no route matches
NotFound(r) ==
    /\ pc[r] = "start"
    /\ request[r].route = "unmatched"
    /\ UNCHANGED <<request, mockUserData>>
    /\ Apply(r, NotFoundHandler(request[r]), calls)

\* express.json() passes its error to the error handling middleware
BadJson(r) ==
    /\ pc[r] = "start"
    /\ request[r].route = "badjson"
    /\ UNCHANGED <<request, mockUserData>>
    /\ Apply(r, ErrorMiddleware(request[r]), calls)

\* express dispatches GET /api/instagram/:username of the mock server
MockStart(r) ==
    /\ pc[r] = "start"
    /\ request[r].route = "mock"
    /\ UNCHANGED <<request, mockUserData>>
    /\ Apply(r, MockHandler(request[r]), calls)

\* the 500 ms timer of fetchInstagramData fires
MockDelayDone(r) ==
    /\ pc[r] = "awaitDelay"
    /\ UNCHANGED <<request, mockUserData>>
    /\ Apply(r, AfterDelay(request[r], LocalsOf(r), mockUserData), Answered(r, Ok(EmptyObject)))

\* one step of the request r
Step(r) ==
    \/ BusinessStart(r)
    \/ PagesReturn(r)
    \/ IgAccountReturn(r)
    \/ ProfileReturn(r)
    \/ MediaReturn(r)
    \/ TokenStart(r)
    \/ TokenReturn(r)
    \/ AuthUrl(r)
    \/ Public(r)
    \/ Static(r)
    \/ NotFound(r)
    \/ BadJson(r)
    \/ MockStart(r)
    \/ MockDelayDone(r)

Next == \E r \in Reqs : Step(r)

Spec == Init /\ [][Next]_vars

\* ------------------------------------------------------------------------
\* One business request whose upstream calls all settle
\* ------------------------------------------------------------------------
\* every path username and access token, the limit absent, usable or falling
\* back to the default
FairRequests ==
    { [route |-> "business", params |-> [username |-> u], query |-> t @@ l] :
        u \in PathUsernames,
        t \in {EmptyObject} \cup {[access_token |-> a] : a \in AccessTokens},
        l \in {EmptyObject, [limit |-> <<"1">>], [limit |-> <<"0">>]} }

InitFair ==
    /\ request \in [Reqs -> FairRequests \cup {NoRequest}]
    /\ \A r \in Reqs : request[r] = NoRequest <=> r # "r1"
    /\ pc = [r \in Reqs |-> IF r = "r1" THEN "start" ELSE "unused"]
    /\ locals = [r \in Reqs |-> EmptyObject]
    /\ calls = <<>>
    /\ responses = [r \in Reqs |-> <<>>]
    /\ mockUserData = MockUserData

\* the handler of the business route and the four awaits it can reach
BusinessStep(r) ==
    \/ BusinessStart(r)
    \/ PagesReturn(r)
    \/ IgAccountReturn(r)
    \/ ProfileReturn(r)
    \/ MediaReturn(r)

NextFair == \E r \in Reqs : BusinessStep(r)

\* the handler runs when express dispatches to it, and every upstream call
\* that was issued settles
Fairness == \A r \in Reqs : WF_vars(BusinessStep(r))

FairSpec == InitFair /\ [][NextFair]_vars /\ Fairness

\* ------------------------------------------------------------------------
\* Two business requests handled at once, their upstream calls interleaved
\* ------------------------------------------------------------------------
ConcRequests ==
    { [route |-> "business", params |-> [username |-> <<"a">>],
       query |-> [access_token |-> t] @@ l] :
        t \in {"tok1", "tok2"}, l \in {EmptyObject, [limit |-> <<"1">>]} }

ConcPagesReplies(args) == {UpstreamFailure} \cup {Ok([data |-> <<p>>]) : p \in Pages}

ConcIgAccountReplies(args) ==
    {Ok([id |-> args.id, instagram_business_account |-> [id |-> a]]) : a \in IgAccountIds}

ConcProfileReplies(args) == {Ok([id |-> args.id, username |-> u]) : u \in ProfileUsernames}

ConcMediaReplies(args) == {UpstreamFailure} \cup {Ok([data |-> <<m>>]) : m \in Posts}

InitConc ==
    /\ request \in [Reqs -> ConcRequests]
    /\ request["r1"].query.access_token = "tok1"
    /\ request["r2"].query.access_token = "tok2"
    /\ pc = [r \in Reqs |-> "start"]
    /\ locals = [r \in Reqs |-> EmptyObject]
    /\ calls = <<>>
    /\ responses = [r \in Reqs |-> <<>>]
    /\ mockUserData = MockUserData

ConcPagesReturn(r) ==
    /\ pc[r] = "awaitPages"
    /\ UNCHANGED <<request, mockUserData>>
    /\ \E reply \in ConcPagesReplies(calls[PendingIndex(r)].args) :
          Apply(r, AfterListPages(request[r], LocalsOf(r), reply), Answered(r, reply))

ConcIgAccountReturn(r) ==
    /\ pc[r] = "awaitIgAccount"
    /\ UNCHANGED <<request, mockUserData>>
    /\ \E reply \in ConcIgAccountReplies(calls[PendingIndex(r)].args) :
          Apply(r, AfterGetIgAccount(request[r], LocalsOf(r), reply), Answered(r, reply))

ConcProfileReturn(r) ==
    /\ pc[r] = "awaitProfile"
    /\ UNCHANGED <<request, mockUserData>>
    /\ \E reply \in ConcProfileReplies(calls[PendingIndex(r)].args) :
          Apply(r, AfterGetProfile(request[r], LocalsOf(r), reply), Answered(r, reply))

ConcMediaReturn(r) ==
    /\ pc[r] = "awaitMedia"
    /\ UNCHANGED <<request, mockUserData>>
    /\ \E reply \in ConcMediaReplies(calls[PendingIndex(r)].args) :
          Apply(r, AfterListMedia(request[r], LocalsOf(r), reply), Answered(r, reply))

NextConc ==
    \E r \in Reqs :
        \/ BusinessStart(r)
        \/ ConcPagesReturn(r)
        \/ ConcIgAccountReturn(r)
        \/ ConcProfileReturn(r)
        \/ ConcMediaReturn(r)

SpecConc == InitConc /\ [][NextConc]_vars

\* ------------------------------------------------------------------------
\* What an observer of one request sees
\* ------------------------------------------------------------------------
CallsOf(r) == SelectSeq(calls, LAMBDA c : c.req = r)

OpsOf(r) == [i \in DOMAIN CallsOf(r) |-> CallsOf(r)[i].op]

Issued(r, op) == \E i \in DOMAIN calls : calls[i].req = r /\ calls[i].op = op

\* the answered calls of r to op
AnswersTo(r, op) ==
    { calls[i].reply : i \in {j \in DOMAIN calls :
          calls[j].req = r /\ calls[j].op = op /\ calls[j].reply # Pending} }

Handled(r) == pc[r] \notin {"start", "unused"}

IsBusiness(r) == request[r].route = "business"

\* the one response of r has this status and is an error body and nothing more
ErrorResponse(r, status) ==
    /\ Len(responses[r]) = 1
    /\ responses[r][1].status = status
    /\ DOMAIN responses[r][1].body = {"success", "error"}
    /\ responses[r][1].body.success = FALSE

\* two strings are equal up to the case of their letters
SameIgnoringCase(a, b) ==
    /\ Len(a) = Len(b)
    /\ \A i \in DOMAIN a :
          \/ a[i] = b[i]
          \/ \E k \in DOMAIN UpperLetters : {a[i], b[i]} = {UpperLetters[k], LowerLetters[k]}

\* the credential of r resolved to an account with a username
ResolvedProfiles(r) ==
    { a.data : a \in {x \in AnswersTo(r, "getProfile") :
                        x.status = "ok" /\ HasField(x.data, "username")} }

\* ------------------------------------------------------------------------
\* Claims
\* ------------------------------------------------------------------------

\* C1: when the credential resolves to an account whose username differs
\* from the path username, compared without regard to case, the response is
\* 404 with success false, list-media is never called and nothing of the
\* resolved account is in the response.
C1_MismatchIsNotFound ==
    \A r \in Reqs : \A p \in ResolvedProfiles(r) :
        (IsBusiness(r) /\ ~SameIgnoringCase(p.username, request[r].params.username))
            => /\ ErrorResponse(r, 404)
               /\ ~Issued(r, "listMedia")

C1_Witness ==
    \E p \in ResolvedProfiles("r1") :
        /\ ~SameIgnoringCase(p.username, request["r1"].params.username)
        /\ Len(p.username) = Len(request["r1"].params.username)
        /\ pc["r1"] = "done"
        /\ responses["r1"][1].status = 404

\* C2: with an access token, resolution and list-media succeeding and the
\* path username equal to the resolved one up to case, list-media is called
\* and the response is a success with account_type "business", the username
\* and profile of the resolved account and the posts list-media returned.
C2_MatchIgnoringCaseSucceeds ==
    \A r \in Reqs : \A p \in ResolvedProfiles(r) :
        (IsBusiness(r) /\ SameIgnoringCase(p.username, request[r].params.username))
            => /\ Issued(r, "listMedia")
               /\ \A m \in AnswersTo(r, "listMedia") :
                     m.status = "ok"
                        => /\ Len(responses[r]) = 1
                           /\ responses[r][1].status = 200
                           /\ LET body == responses[r][1].body
                              IN /\ body.success = TRUE
                                 /\ body.account_type = "business"
                                 /\ body.username = p.username
                                 /\ body.profile = p
                                 /\ IF HasField(m.data, "data")
                                    THEN body.posts = m.data.data
                                    ELSE ~HasField(body, "posts")

C2_Witness ==
    \E p \in ResolvedProfiles("r1") :
        /\ p.username # request["r1"].params.username
        /\ SameIgnoringCase(p.username, request["r1"].params.username)
        /\ Len(responses["r1"]) = 1
        /\ responses["r1"][1].status = 200
        /\ HasField(responses["r1"][1].body, "posts")
        /\ Len(responses["r1"][1].body.posts) = 2
        /\ responses["r1"][1].body.username = p.username

\* C3: a business request without an access_token, absent or empty, is
\* answered 400 with success false and issues no upstream call.
C3_MissingTokenIsBadRequest ==
    \A r \in Reqs :
        (IsBusiness(r) /\ Handled(r)
            /\ (~HasField(request[r].query, "access_token")
                  \/ request[r].query.access_token = ""))
            => /\ ErrorResponse(r, 400)
               /\ CallsOf(r) = <<>>

C3_Witness ==
    /\ IsBusiness("r1")
    /\ HasField(request["r1"].query, "access_token")
    /\ request["r1"].query.access_token = ""
    /\ pc["r1"] = "done"
    /\ responses["r1"][1].status = 400

\* a decimal integer literal, with or without a sign
IsIntegerLiteral(s) ==
    LET d == IF s # <<>> /\ Head(s) \in {"-", "+"} THEN Tail(s) ELSE s
    IN d # <<>> /\ \A i \in DOMAIN d : d[i] \in Range(DigitChars)

\* C4: a business request whose path username does not match
\* ^[A-Za-z0-9._]{1,30}$ is rejected with 400 and issues no upstream call.
C4_BadUsernameRejected ==
    \A r \in Reqs :
        (IsBusiness(r) /\ Handled(r) /\ ~UsernamePatternMatch(request[r].params.username))
            => /\ CallsOf(r) = <<>>
               /\ pc[r] = "done"
               /\ responses[r][1].status = 400

\* C5: a business request whose limit is an integer outside 1..100 is
\* rejected with 400 and issues no upstream call.
C5_LimitOutOfRangeRejected ==
    \A r \in Reqs :
        (IsBusiness(r) /\ Handled(r)
            /\ HasField(request[r].query, "limit")
            /\ IsIntegerLiteral(request[r].query.limit)
            /\ ParseInt(request[r].query.limit).val \notin 1..100)
            => /\ CallsOf(r) = <<>>
               /\ pc[r] = "done"
               /\ responses[r][1].status = 400

\* C6: the limit handed to list-media always lies in 1..100, and is 25 when
\* the request has no limit parameter.
C6_MediaLimitClamped ==
    \A i \in DOMAIN calls :
        calls[i].op = "listMedia"
            => /\ calls[i].args.limit \in 1..100
               /\ ~HasField(request[calls[i].req].query, "limit")
                     => calls[i].args.limit = DefaultLimit

\* the calls r issued after its call number i of the log
LaterCalls(r, i) == {j \in DOMAIN calls : j > i /\ calls[j].req = r}

\* C7: when list-pages answers with no page list or an empty one, resolution
\* fails with the no-pages error, no other upstream call is issued and the
\* response is 500 with success false.
C7_NoPagesStopsResolution ==
    \A r \in Reqs : \A a \in AnswersTo(r, "listPages") :
        (IsBusiness(r) /\ a.status = "ok"
            /\ (~HasField(a.data, "data") \/ a.data.data = <<>>))
            => /\ OpsOf(r) = <<"listPages">>
               /\ ErrorResponse(r, 500)
               /\ responses[r][1].body.error =
                     <<"Failed to get business account info: ", "No Facebook pages found">>

C7_Witness ==
    /\ \E a \in AnswersTo("r1", "listPages") :
          a.status = "ok" /\ HasField(a.data, "data") /\ a.data.data = <<>>
    /\ pc["r1"] = "done"
    /\ responses["r1"][1].status = 500

\* C8: when the selected page has no instagram_business_account, resolution
\* fails with the no-business-account error, get-profile and list-media are
\* never issued and the response is 500 with success false.
C8_NoBusinessAccountStopsResolution ==
    \A r \in Reqs : \A a \in AnswersTo(r, "getIgAccount") :
        (IsBusiness(r) /\ a.status = "ok"
            /\ ~HasField(a.data, "instagram_business_account"))
            => /\ OpsOf(r) = <<"listPages", "getIgAccount">>
               /\ ErrorResponse(r, 500)
               /\ responses[r][1].body.error =
                     <<"Failed to get business account info: ",
                       "No Instagram business account connected">>

C8_Witness ==
    /\ \E a \in AnswersTo("r1", "getIgAccount") :
          a.status = "ok" /\ ~HasField(a.data, "instagram_business_account")
    /\ pc["r1"] = "done"
    /\ responses["r1"][1].status = 500

\* C9: when an upstream call fails, no later call of the request is issued
\* and the response is 500 with success false and neither profile nor posts,
\* also when the call that fails is list-media.
C9_UpstreamFailureFailsRequest ==
    \A i \in DOMAIN calls :
        (IsBusiness(calls[i].req) /\ calls[i].reply.status = "error")
            => /\ LaterCalls(calls[i].req, i) = {}
               /\ ErrorResponse(calls[i].req, 500)

C9_Witness ==
    /\ \E i \in DOMAIN calls :
          calls[i].req = "r1" /\ calls[i].op = "listMedia" /\ calls[i].reply.status = "error"
    /\ ResolvedProfiles("r1") # {}
    /\ pc["r1"] = "done"
    /\ responses["r1"][1].status = 500

ChainOrder == <<"listPages", "getIgAccount", "getProfile", "listMedia">>

\* C10: the upstream calls of one request are issued in the order list-pages,
\* get-linked-account, get-profile, list-media, each at most once and only
\* after the one before returned successfully; none is outstanding once the
\* response is sent.
C10_CallsSequentialOnce ==
    \A r \in Reqs : IsBusiness(r) =>
        LET cs == CallsOf(r)
        IN /\ Len(cs) <= 4
           /\ \A k \in DOMAIN cs : cs[k].op = ChainOrder[k]
           /\ \A k \in DOMAIN cs : k < Len(cs) => cs[k].reply.status = "ok"
           /\ responses[r] # <<>> => \A k \in DOMAIN cs : cs[k].reply # Pending

C10_Witness ==
    /\ OpsOf("r1") = ChainOrder
    /\ pc["r1"] = "done"
    /\ Len(responses["r1"]) = 1

\* the page lists with at least one page that answered list-pages for r
PageListsOf(r) ==
    { a.data.data : a \in {x \in AnswersTo(r, "listPages") :
                             x.status = "ok" /\ HasField(x.data, "data") /\ x.data.data # <<>>} }

\* C11: resolution uses the first page of the list whatever its length; the
\* caller's credential goes only to list-pages, and get-linked-account,
\* get-profile and list-media all carry the first page's token.
C11_FirstPageTokenUsed ==
    \A r \in Reqs : IsBusiness(r) =>
        \A i \in DOMAIN calls : calls[i].req = r =>
            IF calls[i].op = "listPages"
            THEN calls[i].args.token = request[r].query.access_token
            ELSE \A l \in PageListsOf(r) :
                    /\ calls[i].args.token = l[1].access_token
                    /\ calls[i].args.token # request[r].query.access_token
                    /\ calls[i].op = "getIgAccount" => calls[i].args.id = l[1].id

C11_Witness ==
    /\ OpsOf("r1") = ChainOrder
    /\ \E l \in PageListsOf("r1") : Len(l) = 2 /\ l[1] # l[2]
    /\ pc["r1"] = "done"

\* how many calls to op the request r issued
CountOf(r, op) == Cardinality({i \in DOMAIN calls : calls[i].req = r /\ calls[i].op = op})

\* C16: when list-media answers with N records, the posts of the response
\* are these N records in the same order and unchanged, from the one
\* list-media call of the request, also when the answer names a next page.
C16_PostsAreTheMediaPage ==
    \A r \in Reqs : IsBusiness(r) =>
        /\ CountOf(r, "listMedia") <= 1
        /\ \A m \in AnswersTo(r, "listMedia") :
              (m.status = "ok" /\ HasField(m.data, "data"))
                 => /\ pc[r] = "done"
                    /\ Len(responses[r]) = 1
                    /\ responses[r][1].status = 200
                    /\ Len(responses[r][1].body.posts) = Len(m.data.data)
                    /\ \A k \in DOMAIN m.data.data :
                          responses[r][1].body.posts[k] = m.data.data[k]

C16_Witness ==
    /\ pc["r1"] = "done"
    /\ \E m \in AnswersTo("r1", "listMedia") :
          /\ m.status = "ok"
          /\ HasField(m.data, "paging")
          /\ Len(m.data.data) = 2
          /\ m.data.data[1] # m.data.data[2]
          /\ responses["r1"][1].body.posts = m.data.data

IsToken(r) == request[r].route = "token"

\* the body of r has each of code, app_id, app_secret and redirect_uri, none empty
HasAllTokenParams(r) ==
    /\ \A f \in {"code", "app_id", "app_secret", "redirect_uri"} : HasField(request[r].body, f)
    /\ \A f \in {"code", "app_id", "app_secret"} : request[r].body[f] # ""
    /\ request[r].body.redirect_uri # <<>>

\* C12: a token-exchange request whose body lacks one of code, app_id,
\* app_secret, redirect_uri, absent or empty, is answered 400 with success
\* false and the exchange call is never issued.
C12_MissingTokenParamIsBadRequest ==
    \A r \in Reqs :
        (IsToken(r) /\ Handled(r) /\ ~HasAllTokenParams(r))
            => /\ ErrorResponse(r, 400)
               /\ CallsOf(r) = <<>>

C12_Witness ==
    /\ IsToken("r1")
    /\ DOMAIN request["r1"].body = {"code", "app_id", "app_secret", "redirect_uri"}
    /\ request["r1"].body.redirect_uri = <<>>
    /\ request["r1"].body.code # ""
    /\ request["r1"].body.app_id # ""
    /\ request["r1"].body.app_secret # ""
    /\ pc["r1"] = "done"
    /\ responses["r1"][1].status = 400

\* C13: a token-exchange request with all four fields issues the exchange
\* call exactly once; when the call succeeds the response is success true
\* with the access_token, token_type and expires_in of the answer, and when
\* it fails the response is 500 with success false and a fixed message that
\* has nothing of the upstream error in it.
C13_OneExchangeCall ==
    \A r \in Reqs :
        (IsToken(r) /\ Handled(r) /\ HasAllTokenParams(r))
            => /\ OpsOf(r) = <<"exchangeToken">>
               /\ \A a \in AnswersTo(r, "exchangeToken") :
                     /\ Len(responses[r]) = 1
                     /\ a.status = "ok"
                           => /\ responses[r][1].status = 200
                              /\ responses[r][1].body = [success |-> TRUE] @@ a.data
                     /\ a.status = "error"
                           => /\ ErrorResponse(r, 500)
                              /\ responses[r][1].body.error =
                                    <<"Failed to exchange code for token">>
                              /\ Range(responses[r][1].body.error) \cap Range(a.message) = {}

C13_Witness ==
    /\ IsToken("r1")
    /\ pc["r1"] = "done"
    /\ \E a \in AnswersTo("r1", "exchangeToken") : a.status = "error"
    /\ responses["r1"][1].status = 500

GraphRoutes ==
    {"business", "token", "authurl", "public", "setup", "health", "root", "unmatched", "badjson"}

\* C14: on every route of the Graph API server, a response whose status is
\* not 2xx has a body with success false and an error message.
C14_ErrorBodiesAreUniform ==
    \A r \in Reqs : request[r].route \in GraphRoutes =>
        \A k \in DOMAIN responses[r] :
            responses[r][k].status \notin 200..299
                => /\ HasField(responses[r][k].body, "success")
                   /\ responses[r][k].body.success = FALSE
                   /\ HasField(responses[r][k].body, "error")
                   /\ responses[r][k].body.error # <<>>

C14_Witness ==
    /\ request["r1"].route = "unmatched"
    /\ Len(responses["r1"]) = 1
    /\ responses["r1"][1].status = 404

\* the linked accounts that answered get-linked-account for r
LinkedAccountsOf(r) ==
    { a.data.instagram_business_account.id :
        a \in {x \in AnswersTo(r, "getIgAccount") :
                 x.status = "ok" /\ HasField(x.data, "instagram_business_account")} }

\* the arguments of a call of r to op are made of r's own request and of the
\* answers to r's own earlier calls
OwnArguments(r, op, args) ==
    CASE op = "listPages" -> args = [token |-> request[r].query.access_token]
      [] op = "getIgAccount" ->
            \E l \in PageListsOf(r) : args = [id |-> l[1].id, token |-> l[1].access_token]
      [] op = "getProfile" ->
            \E l \in PageListsOf(r), a \in LinkedAccountsOf(r) :
                args = [id |-> a, token |-> l[1].access_token]
      [] op = "listMedia" ->
            \E l \in PageListsOf(r), a \in LinkedAccountsOf(r) :
                args = [id |-> a, token |-> l[1].access_token,
                        limit |-> IF HasField(request[r].query, "limit") THEN 1 ELSE DefaultLimit]

\* the response of r is made of r's own request and of the answers to r's own calls
OwnResponse(r, resp) ==
    CASE resp.status = 200 ->
            \E p \in ResolvedProfiles(r), m \in AnswersTo(r, "listMedia") :
                /\ m.status = "ok"
                /\ resp.body = [success |-> TRUE, username |-> p.username,
                                account_type |-> "business", profile |-> p,
                                posts |-> m.data.data]
      [] resp.status = 404 ->
            \E p \in ResolvedProfiles(r) :
                ~SameIgnoringCase(p.username, request[r].params.username)
      [] resp.status = 500 ->
            \E i \in DOMAIN calls : calls[i].req = r /\ calls[i].reply.status = "error"
      [] OTHER -> FALSE

\* C15: with two business requests in flight and their upstream calls
\* interleaved in any order, what each request sends upstream and what it
\* answers is made of its own parameters and its own upstream answers only.
C15_RequestsAreIsolated ==
    \A r \in Reqs :
        /\ \A i \in DOMAIN calls :
              calls[i].req = r => OwnArguments(r, calls[i].op, calls[i].args)
        /\ Len(responses[r]) <= 1
        /\ \A k \in DOMAIN responses[r] : OwnResponse(r, responses[r][k])

C15_Witness ==
    /\ Len(calls) = 8
    /\ \A k \in 1..7 : calls[k].req # calls[k + 1].req
    /\ \A r \in Reqs : pc[r] = "done" /\ responses[r][1].status = 200
    /\ responses["r1"][1].body.profile.id # responses["r2"][1].body.profile.id
    /\ responses["r1"][1].body.posts # responses["r2"][1].body.posts
    /\ \E l1 \in PageListsOf("r1"), l2 \in PageListsOf("r2") : l1 # l2

IsMock(r) == request[r].route = "mock"

\* the limit of r is an integer literal of this value set
LimitIsIntegerIn(r, values) ==
    /\ HasField(request[r].query, "limit")
    /\ IsIntegerLiteral(request[r].query.limit)
    /\ ParseInt(request[r].query.limit).val \in values

\* C17: in the mock server a limit that is an integer outside 1..50, zero and
\* negative values included, is rejected with 400 "Limit must be between 1
\* and 50" and the data fetch is not invoked.
C17_MockLimitOutOfRangeRejected ==
    \A r \in Reqs :
        (IsMock(r) /\ Handled(r) /\ LimitIsIntegerIn(r, Int \ (1..50)))
            => /\ ErrorResponse(r, 400)
               /\ CallsOf(r) = <<>>
               /\ UsernamePatternMatch(request[r].params.username)
                     => responses[r][1].body.error = <<"Limit must be between 1 and 50">>

\* the first n elements of a sequence, all of them when it has fewer
FirstN(seq, n) == [k \in 1..(IF n < Len(seq) THEN n ELSE Len(seq)) |-> seq[k]]

\* C18: in the mock server an invalid username yields 400 without a data
\* fetch; a valid username that is not in the dataset, looked up in lower
\* case, yields 404 "User not found"; a valid known username with a limit L
\* in 1..50 yields the first min(L, count) stored posts in stored order; the
\* dataset is left as it was.
C18_MockLookup ==
    /\ mockUserData = MockUserData
    /\ \A r \in Reqs : (IsMock(r) /\ Handled(r)) =>
          LET name == request[r].params.username
              key == [i \in DOMAIN name |->
                        IF \E k \in DOMAIN UpperLetters : UpperLetters[k] = name[i]
                        THEN LowerLetters[CHOOSE k \in DOMAIN UpperLetters :
                                                     UpperLetters[k] = name[i]]
                        ELSE name[i]]
              limitOk == ~HasField(request[r].query, "limit") \/ LimitIsIntegerIn(r, 1..50)
              L == IF HasField(request[r].query, "limit")
                   THEN ParseInt(request[r].query.limit).val ELSE MockDefaultLimit
          IN /\ ~UsernamePatternMatch(name)
                   => ErrorResponse(r, 400) /\ CallsOf(r) = <<>>
             /\ (UsernamePatternMatch(name) /\ limitOk /\ pc[r] = "done"
                    /\ key \notin DOMAIN MockUserData)
                   => /\ ErrorResponse(r, 404)
                      /\ responses[r][1].body.error = <<"User not found">>
             /\ (UsernamePatternMatch(name) /\ limitOk /\ pc[r] = "done"
                    /\ key \in DOMAIN MockUserData)
                   => /\ Len(responses[r]) = 1
                      /\ responses[r][1].status = 200
                      /\ responses[r][1].body.success = TRUE
                      /\ responses[r][1].body.posts = FirstN(MockUserData[key].posts, L)

\* C19: a business or token-exchange request gets exactly one response on
\* every path: none while the handler is still running, one when it has
\* returned, never a second one.
C19_ExactlyOneResponse ==
    \A r \in Reqs : (IsBusiness(r) \/ IsToken(r)) =>
        /\ Len(responses[r]) <= 1
        /\ pc[r] = "done" => Len(responses[r]) = 1
        /\ pc[r] # "done" => responses[r] = <<>>

C19_Witness ==
    /\ IsBusiness("r1")
    /\ ~HasField(request["r1"].query, "access_token")
    /\ pc["r1"] = "done"
    /\ Len(responses["r1"]) = 1
    /\ responses["r1"][1].status = 400

\* C20: when every upstream call that is issued returns or fails, every
\* business request is answered in the end.
C20_BusinessRequestAnswered ==
    \A r \in Reqs : (IsBusiness(r) /\ pc[r] = "start") ~> (Len(responses[r]) = 1)

C20_Witness ==
    /\ IsBusiness("r1")
    /\ OpsOf("r1") = ChainOrder
    /\ \A i \in DOMAIN calls : calls[i].reply # Pending
    /\ pc["r1"] = "done"
    /\ Len(responses["r1"]) = 1

\* the calls getBusinessAccountInfo makes
ResolutionOps == {"listPages", "getIgAccount", "getProfile"}

\* the messages of the failures raised while the credential of r was resolved
ResolutionFailures(r) ==
    { rep.message : rep \in { x \in UNION {AnswersTo(r, op) : op \in ResolutionOps} :
                                 x.status = "error" } }
    \cup { <<"No Facebook pages found">> :
             rep \in { x \in AnswersTo(r, "listPages") :
                         /\ x.status = "ok"
                         /\ (~HasField(x.data, "data") \/ x.data.data = <<>>) } }
    \cup { <<"No Instagram business account connected">> :
             rep \in { x \in AnswersTo(r, "getIgAccount") :
                         /\ x.status = "ok"
                         /\ ~HasField(x.data, "instagram_business_account") } }

\* C21: a failure raised inside account resolution, an upstream call that
\* failed or one of the two named conditions, is answered with a 500 whose
\* error field is the original message behind the prefix
\* "Failed to get business account info: ", once.
C21_ResolutionFailurePrefixed ==
    \A r \in Reqs :
        IsBusiness(r) =>
            \A m \in ResolutionFailures(r) :
                /\ ErrorResponse(r, 500)
                /\ responses[r][1].body.error
                      = <<"Failed to get business account info: ">> \o m

C21_Witness ==
    /\ IsBusiness("r1")
    /\ OpsOf("r1") = <<"listPages", "getIgAccount", "getProfile">>
    /\ AnswersTo("r1", "getProfile") = {UpstreamFailure}
    /\ ErrorResponse("r1", 500)
    /\ responses["r1"][1].body.error
          = <<"Failed to get business account info: ">> \o UpstreamFailure.message

\* the named condition of an account with no Facebook page, answered
C21_WitnessNoPages ==
    /\ IsBusiness("r1")
    /\ ResolutionFailures("r1") = {<<"No Facebook pages found">>}
    /\ ErrorResponse("r1", 500)

====
